---------------------------- MODULE Spec2Model ----------------------------
(***************************************************************************)
(* Model of the value encoders of src/mysql/src/value/encode.rs: the       *)
(* ToMysqlValue implementations that render a value into the MySQL binary  *)
(* (column-directed) and text resultset formats.                           *)
(*                                                                         *)
(* One action models one call of one implementation on a fresh sink.  The  *)
(* state records the call (operation, value, column) and its outcome: the  *)
(* bytes the call wrote and whether it returned Ok, returned Err (with the *)
(* io::ErrorKind) or panicked.                                             *)
(*                                                                         *)
(* Integers of the program are up to 64 bits wide, wider than the numbers  *)
(* the model checker computes with, so a program integer is modelled as a  *)
(* sign and an 8-byte little-endian magnitude, and the casts and writes    *)
(* work on two's-complement byte patterns as the machine does.             *)
(***************************************************************************)
EXTENDS Integers, Sequences, FiniteSets

-----------------------------------------------------------------------------
(* Program integers: [neg, mag], mag the magnitude as 8 bytes, low first.  *)

Idx == 1..8

ZeroMag == [i \in Idx |-> 0]

\* A small integer (|n| < 2^31) as a program integer.
N(n) ==
    LET a == IF n < 0 THEN -n ELSE n
    IN  [neg |-> n < 0,
         mag |-> [i \in Idx |-> IF i = 1 THEN a % 256
                                ELSE IF i = 2 THEN (a \div 256) % 256
                                ELSE IF i = 3 THEN (a \div 65536) % 256
                                ELSE IF i = 4 THEN (a \div 16777216) % 256
                                ELSE 0]]

\* 2^k, k in 0..63.
Pow2(k) ==
    [neg |-> FALSE,
     mag |-> [i \in Idx |-> IF i - 1 = k \div 8 THEN 2 ^ (k % 8) ELSE 0]]

\* 2^k - 1, k in 0..64.
Pow2m1(k) ==
    [neg |-> FALSE,
     mag |-> [i \in Idx |-> IF i - 1 < k \div 8 THEN 255
                            ELSE IF i - 1 = k \div 8 THEN 2 ^ (k % 8) - 1
                            ELSE 0]]

Neg(x) == [neg |-> (~x.neg) /\ x.mag # ZeroMag, mag |-> x.mag]

MagLT(a, b) == \E i \in Idx : a[i] < b[i] /\ \A j \in (i + 1)..8 : a[j] = b[j]

LT(x, y) ==
    IF x.neg /\ ~y.neg THEN TRUE
    ELSE IF ~x.neg /\ y.neg THEN FALSE
    ELSE IF x.neg THEN MagLT(y.mag, x.mag)
    ELSE MagLT(x.mag, y.mag)

LE(x, y) == x = y \/ LT(x, y)

\* Two's-complement negation of a byte pattern of any length.
NegPat(b) ==
    IF \A i \in 1..Len(b) : b[i] = 0 THEN b
    ELSE LET k == CHOOSE i \in 1..Len(b) : b[i] # 0 /\ \A j \in 1..(i - 1) : b[j] = 0
         IN  [i \in 1..Len(b) |-> IF i < k THEN 0
                                  ELSE IF i = k THEN 256 - b[i]
                                  ELSE 255 - b[i]]

\* The 64-bit two's-complement pattern of a program integer, low byte first.
Pat64(x) == IF x.neg THEN NegPat(x.mag) ELSE x.mag

\* The integer a byte pattern stands for, read as signed or unsigned.
Interp(b, signed) ==
    LET w == Len(b)
        pad(p) == [i \in Idx |-> IF i <= w THEN p[i] ELSE 0]
    IN  IF signed /\ b[w] >= 128
        THEN [neg |-> TRUE, mag |-> pad(NegPat(b))]
        ELSE [neg |-> FALSE, mag |-> pad(b)]

-----------------------------------------------------------------------------
(* Native integer types: width in bytes and signedness.                    *)

IntTy(b, s) == [bytes |-> b, signed |-> s]

U8 == IntTy(1, FALSE)
I8 == IntTy(1, TRUE)
U16 == IntTy(2, FALSE)
I16 == IntTy(2, TRUE)
U32 == IntTy(4, FALSE)
I32 == IntTy(4, TRUE)
U64 == IntTy(8, FALSE)
I64 == IntTy(8, TRUE)

\* usize and isize have the width of a pointer of the build target.
PointerWidths == {4, 8}
USize(pw) == IntTy(pw, FALSE)
ISize(pw) == IntTy(pw, TRUE)

\* <T>::min_value() and <T>::max_value().
MinValue(ty) == IF ty.signed THEN Neg(Pow2(8 * ty.bytes - 1)) ELSE N(0)
MaxValue(ty) == IF ty.signed THEN Pow2m1(8 * ty.bytes - 1) ELSE Pow2m1(8 * ty.bytes)

\* `x as T`: keep the low bytes of the pattern and read them as a T.  For a
\* value T represents (T::from) this is the identity.
CastAs(x, ty) == Interp(SubSeq(Pat64(x), 1, ty.bytes), ty.signed)

\* write_u8 / write_i8 / write_{u,i}{16,32,64}::<LittleEndian> of a value of
\* type ty: the bytes appended to the sink.
WriteInt(x, ty) == SubSeq(Pat64(x), 1, ty.bytes)

-----------------------------------------------------------------------------
(* Columns: the declared wire type and the UNSIGNED flag.                  *)

IntColTypes == {"TINY", "SHORT", "YEAR", "LONG", "INT24", "LONGLONG"}

BytesColTypes ==
    {"STRING", "VAR_STRING", "BLOB", "TINY_BLOB", "MEDIUM_BLOB", "LONG_BLOB",
     "SET", "ENUM", "DECIMAL", "VARCHAR", "BIT", "NEWDECIMAL", "GEOMETRY", "JSON"}

\* The members of myc::constants::ColumnType.
ColumnTypes ==
    IntColTypes \cup BytesColTypes \cup
    {"FLOAT", "DOUBLE", "NULL", "TIMESTAMP", "DATE", "TIME", "DATETIME",
     "NEWDATE", "TIMESTAMP2", "DATETIME2", "TIME2"}

Columns == [coltype : ColumnTypes, unsigned : BOOLEAN]

-----------------------------------------------------------------------------
(* Outcomes of one call: io::Result<()> and the bytes written, or a panic. *)

Ok(bytes) == [res |-> "Ok", kind |-> "none", out |-> bytes]

\* Err(bad(v, c)): io::ErrorKind::InvalidData, returned before any write.
Bad == [res |-> "Err", kind |-> "InvalidData", out |-> <<>>]

\* Err(io::Error::new(io::ErrorKind::Other, "negative times not yet supported")).
NegativeTime == [res |-> "Err", kind |-> "Other", out |-> <<>>]

\* assert!, unreachable!, expect or a panicking constructor: the call does not
\* return; out is what the sink holds at that point.
Panic(bytes) == [res |-> "Panic", kind |-> "none", out |-> bytes]

\* let signed = !c.colflags.contains(ColumnFlags::UNSIGNED_FLAG);
Signed(c) == ~c.unsigned

-----------------------------------------------------------------------------
(* Numeric encoders.                                                       *)

\* like_try_into!(self, source = / => target, w, write, c)
like_try_into(self, source, target) ==
    LET min == CastAs(MinValue(target), source)
        max == CastAs(MaxValue(target), source)
    IN  IF LE(self, max) /\ LE(min, self)
        THEN Ok(WriteInt(CastAs(self, target), target))
        ELSE Bad

\* forgiving_numeric!(t): to_mysql_bin for usize and isize.
forgiving_numeric(self, t, c) ==
    LET signed == Signed(c)
    IN  CASE c.coltype = "LONGLONG" ->
               IF signed THEN like_try_into(self, t, I64)
                         ELSE like_try_into(self, t, U64)
          [] c.coltype \in {"LONG", "INT24"} ->
               IF signed THEN like_try_into(self, t, I32)
                         ELSE like_try_into(self, t, U32)
          [] c.coltype \in {"SHORT", "YEAR"} ->
               IF signed THEN like_try_into(self, t, I16)
                         ELSE like_try_into(self, t, U16)
          [] c.coltype = "TINY" ->
               IF signed THEN like_try_into(self, t, I8)
                         ELSE like_try_into(self, t, U8)
          [] OTHER -> Bad

\* <u8 as ToMysqlValue>::to_mysql_bin
u8_to_mysql_bin(self, c) ==
    LET signed == Signed(c)
    IN  CASE c.coltype = "LONGLONG" ->
               IF signed THEN Ok(WriteInt(CastAs(self, I64), I64))
                         ELSE Ok(WriteInt(CastAs(self, U64), U64))
          [] c.coltype \in {"LONG", "INT24"} ->
               IF signed THEN Ok(WriteInt(CastAs(self, I32), I32))
                         ELSE Ok(WriteInt(CastAs(self, U32), U32))
          [] c.coltype \in {"SHORT", "YEAR"} ->
               IF signed THEN Ok(WriteInt(CastAs(self, I16), I16))
                         ELSE Ok(WriteInt(CastAs(self, U16), U16))
          [] c.coltype = "TINY" ->
               IF ~(~signed) THEN Panic(<<>>) ELSE Ok(WriteInt(self, U8))
          [] OTHER -> Bad

\* <i8 as ToMysqlValue>::to_mysql_bin
i8_to_mysql_bin(self, c) ==
    LET signed == Signed(c)
    IN  CASE c.coltype = "LONGLONG" ->
               IF signed THEN Ok(WriteInt(CastAs(self, I64), I64))
                         ELSE Ok(WriteInt(CastAs(self, U64), U64))
          [] c.coltype \in {"LONG", "INT24"} ->
               IF signed THEN Ok(WriteInt(CastAs(self, I32), I32))
                         ELSE Ok(WriteInt(CastAs(self, U32), U32))
          [] c.coltype \in {"SHORT", "YEAR"} ->
               IF signed THEN Ok(WriteInt(CastAs(self, I16), I16))
                         ELSE Ok(WriteInt(CastAs(self, U16), U16))
          [] c.coltype = "TINY" ->
               IF ~signed THEN Panic(<<>>) ELSE Ok(WriteInt(self, I8))
          [] OTHER -> Bad

\* <u16 as ToMysqlValue>::to_mysql_bin
u16_to_mysql_bin(self, c) ==
    LET signed == Signed(c)
    IN  CASE c.coltype = "LONGLONG" ->
               IF signed THEN Ok(WriteInt(CastAs(self, I64), I64))
                         ELSE Ok(WriteInt(CastAs(self, U64), U64))
          [] c.coltype \in {"LONG", "INT24"} ->
               IF signed THEN Ok(WriteInt(CastAs(self, I32), I32))
                         ELSE Ok(WriteInt(CastAs(self, U32), U32))
          [] c.coltype \in {"SHORT", "YEAR"} ->
               IF ~(~signed) THEN Panic(<<>>) ELSE Ok(WriteInt(self, U16))
          [] OTHER -> Bad

\* <i16 as ToMysqlValue>::to_mysql_bin
i16_to_mysql_bin(self, c) ==
    LET signed == Signed(c)
    IN  CASE c.coltype = "LONGLONG" ->
               IF signed THEN Ok(WriteInt(CastAs(self, I64), I64))
                         ELSE Ok(WriteInt(CastAs(self, U64), U64))
          [] c.coltype \in {"LONG", "INT24"} ->
               IF signed THEN Ok(WriteInt(CastAs(self, I32), I32))
                         ELSE Ok(WriteInt(CastAs(self, U32), U32))
          [] c.coltype \in {"SHORT", "YEAR"} ->
               IF ~signed THEN Panic(<<>>) ELSE Ok(WriteInt(self, I16))
          [] OTHER -> Bad

\* <u32 as ToMysqlValue>::to_mysql_bin
u32_to_mysql_bin(self, c) ==
    LET signed == Signed(c)
    IN  CASE c.coltype = "LONGLONG" ->
               IF signed THEN Ok(WriteInt(CastAs(self, I64), I64))
                         ELSE Ok(WriteInt(CastAs(self, U64), U64))
          [] c.coltype \in {"LONG", "INT24"} ->
               IF ~(~signed) THEN Panic(<<>>) ELSE Ok(WriteInt(self, U32))
          [] OTHER -> Bad

\* <i32 as ToMysqlValue>::to_mysql_bin
i32_to_mysql_bin(self, c) ==
    LET signed == Signed(c)
    IN  CASE c.coltype = "LONGLONG" ->
               IF signed THEN Ok(WriteInt(CastAs(self, I64), I64))
                         ELSE Ok(WriteInt(CastAs(self, U64), U64))
          [] c.coltype \in {"LONG", "INT24"} ->
               IF ~signed THEN Panic(<<>>) ELSE Ok(WriteInt(self, I32))
          [] OTHER -> Bad

\* <u64 as ToMysqlValue>::to_mysql_bin
u64_to_mysql_bin(self, c) ==
    LET signed == Signed(c)
    IN  CASE c.coltype = "LONGLONG" ->
               IF ~(~signed) THEN Panic(<<>>) ELSE Ok(WriteInt(self, U64))
          [] OTHER -> Bad

\* <i64 as ToMysqlValue>::to_mysql_bin
i64_to_mysql_bin(self, c) ==
    LET signed == Signed(c)
    IN  CASE c.coltype = "LONGLONG" ->
               IF ~signed THEN Panic(<<>>) ELSE Ok(WriteInt(self, I64))
          [] OTHER -> Bad

\* A dispatcher that delegates every Value::Int to the i64 encoder instead of
\* narrowing it first.
value_int_delegate_i64(n, c) == i64_to_mysql_bin(n, c)

\* A dispatcher whose unsigned branch lacks the `n < 0` rejection.
value_int_no_neg_check(n, c) ==
    LET signed == Signed(c)
    IN  IF signed
        THEN IF LE(MinValue(I8), n) /\ LE(n, MaxValue(I8))
                  THEN i8_to_mysql_bin(CastAs(n, I8), c)
             ELSE IF LE(MinValue(I16), n) /\ LE(n, MaxValue(I16))
                  THEN i16_to_mysql_bin(CastAs(n, I16), c)
             ELSE IF LE(MinValue(I32), n) /\ LE(n, MaxValue(I32))
                  THEN i32_to_mysql_bin(CastAs(n, I32), c)
             ELSE i64_to_mysql_bin(n, c)
        ELSE IF LE(n, MaxValue(U8)) THEN u8_to_mysql_bin(CastAs(n, U8), c)
        ELSE IF LE(n, MaxValue(U16)) THEN u16_to_mysql_bin(CastAs(n, U16), c)
        ELSE IF LE(n, MaxValue(U32)) THEN u32_to_mysql_bin(CastAs(n, U32), c)
        ELSE u64_to_mysql_bin(CastAs(n, U64), c)

\* <Value as ToMysqlValue>::to_mysql_bin, Value::Int(n)
value_int_to_mysql_bin(n, c) ==
    LET signed == Signed(c)
    IN  IF signed
        THEN IF LE(MinValue(I8), n) /\ LE(n, MaxValue(I8))
                  THEN i8_to_mysql_bin(CastAs(n, I8), c)
             ELSE IF LE(MinValue(I16), n) /\ LE(n, MaxValue(I16))
                  THEN i16_to_mysql_bin(CastAs(n, I16), c)
             ELSE IF LE(MinValue(I32), n) /\ LE(n, MaxValue(I32))
                  THEN i32_to_mysql_bin(CastAs(n, I32), c)
             ELSE i64_to_mysql_bin(n, c)
        ELSE IF LT(n, N(0)) THEN Bad
        ELSE IF LE(n, MaxValue(U8)) THEN u8_to_mysql_bin(CastAs(n, U8), c)
        ELSE IF LE(n, MaxValue(U16)) THEN u16_to_mysql_bin(CastAs(n, U16), c)
        ELSE IF LE(n, MaxValue(U32)) THEN u32_to_mysql_bin(CastAs(n, U32), c)
        ELSE u64_to_mysql_bin(CastAs(n, U64), c)

\* <Value as ToMysqlValue>::to_mysql_bin, Value::UInt(n)
value_uint_to_mysql_bin(n, c) == u64_to_mysql_bin(n, c)

-----------------------------------------------------------------------------
(* Byte writers for values that fit the model checker's integers.          *)

\* write_u8(n as u8)
WriteU8(n) == <<n % 256>>

\* write_u16::<LittleEndian>(n as u16)
WriteU16LE(n) == <<n % 256, (n \div 256) % 256>>

\* write_u32::<LittleEndian>(n as u32), n < 2^31
WriteU32LE(n) ==
    <<n % 256, (n \div 256) % 256, (n \div 65536) % 256, (n \div 16777216) % 256>>

\* WriteMysqlExt::write_lenenc_int: the length prefix of a length-encoded string.
write_lenenc_int(n) ==
    IF n < 251 THEN <<n>>
    ELSE IF n < 65536 THEN <<252>> \o WriteU16LE(n)
    ELSE IF n < 16777216 THEN <<253, n % 256, (n \div 256) % 256, (n \div 65536) % 256>>
    ELSE <<254>> \o WriteU32LE(n) \o <<0, 0, 0, 0>>

\* WriteMysqlExt::write_lenenc_str
write_lenenc_str(bytes) == write_lenenc_int(Len(bytes)) \o bytes

\* The decimal digits of n >= 0, as ASCII.
RECURSIVE Digits(_)
Digits(n) == IF n < 10 THEN <<48 + n>> ELSE Digits(n \div 10) \o <<48 + (n % 10)>>

\* format!("{:0w}", n): zero-padded to at least w characters.
FmtPad(n, w) ==
    LET ds == Digits(n)
    IN  IF Len(ds) >= w THEN ds ELSE [i \in 1..(w - Len(ds)) |-> 48] \o ds

-----------------------------------------------------------------------------
(* Temporal encoders.                                                      *)

\* <NaiveDate as ToMysqlValue>::to_mysql_bin
date_to_mysql_bin(self, c) ==
    IF c.coltype = "DATE"
    THEN Ok(WriteU8(4) \o WriteU16LE(self.year % 65536)
            \o WriteU8(self.month) \o WriteU8(self.day))
    ELSE Bad

\* A datetime encoder that picks the length byte by the nanoseconds, not by the
\* microseconds it then tests and writes.
datetime_len_by_nanos(self, c) ==
    IF c.coltype \in {"DATETIME", "TIMESTAMP"}
    THEN LET us == self.nano \div 1000
         IN  Ok((IF self.nano # 0 THEN WriteU8(11) ELSE WriteU8(7))
                \o WriteU16LE(self.year % 65536)
                \o WriteU8(self.month) \o WriteU8(self.day)
                \o WriteU8(self.hour) \o WriteU8(self.minute) \o WriteU8(self.second)
                \o (IF us # 0 THEN WriteU32LE(us) ELSE <<>>))
    ELSE Bad

\* A datetime encoder that accepts DATETIME columns only.
datetime_no_timestamp(self, c) ==
    IF c.coltype = "DATETIME"
    THEN LET us == self.nano \div 1000
         IN  Ok((IF us # 0 THEN WriteU8(11) ELSE WriteU8(7))
                \o WriteU16LE(self.year % 65536)
                \o WriteU8(self.month) \o WriteU8(self.day)
                \o WriteU8(self.hour) \o WriteU8(self.minute) \o WriteU8(self.second)
                \o (IF us # 0 THEN WriteU32LE(us) ELSE <<>>))
    ELSE Bad

\* <NaiveDateTime as ToMysqlValue>::to_mysql_bin
datetime_to_mysql_bin(self, c) ==
    IF c.coltype \in {"DATETIME", "TIMESTAMP"}
    THEN LET us == self.nano \div 1000
         IN  Ok((IF us # 0 THEN WriteU8(11) ELSE WriteU8(7))
                \o WriteU16LE(self.year % 65536)
                \o WriteU8(self.month) \o WriteU8(self.day)
                \o WriteU8(self.hour) \o WriteU8(self.minute) \o WriteU8(self.second)
                \o (IF us # 0 THEN WriteU32LE(us) ELSE <<>>))
    ELSE Bad

\* A text duration encoder that keeps the hour within the day, as the binary
\* encoder does.
duration_text_hours_in_day(self) ==
    LET h == (self.secs % (24 * 3600)) \div 3600
        m == (self.secs % 3600) \div 60
        s == self.secs % 60
        us == self.nanos \div 1000
    IN  IF us # 0
        THEN Ok(write_lenenc_str(FmtPad(h, 2) \o <<58>> \o FmtPad(m, 2) \o <<58>>
                                 \o FmtPad(s, 2) \o <<46>> \o FmtPad(us, 6)))
        ELSE Ok(write_lenenc_str(FmtPad(h, 2) \o <<58>> \o FmtPad(m, 2) \o <<58>>
                                 \o FmtPad(s, 2)))

\* <Duration as ToMysqlValue>::to_mysql_text
duration_to_mysql_text(self) ==
    LET h == self.secs \div 3600
        m == (self.secs % 3600) \div 60
        s == self.secs % 60
        us == self.nanos \div 1000
    IN  IF us # 0
        THEN Ok(write_lenenc_str(FmtPad(h, 2) \o <<58>> \o FmtPad(m, 2) \o <<58>>
                                 \o FmtPad(s, 2) \o <<46>> \o FmtPad(us, 6)))
        ELSE Ok(write_lenenc_str(FmtPad(h, 2) \o <<58>> \o FmtPad(m, 2) \o <<58>>
                                 \o FmtPad(s, 2)))

\* A binary duration encoder that folds the days into the hour, as the text
\* encoder does.
duration_hours_folded(self, c) ==
    LET d == self.secs \div (24 * 3600)
        h == self.secs \div 3600
        m == (self.secs % 3600) \div 60
        s == self.secs % 60
        us == self.nanos \div 1000
    IN  IF ~(d <= 34) THEN Panic(<<>>)
        ELSE IF c.coltype = "TIME"
        THEN IF self.secs = 0 /\ us = 0
             THEN Ok(WriteU8(0))
             ELSE Ok((IF us # 0 THEN WriteU8(12) ELSE WriteU8(8))
                     \o WriteU8(0)
                     \o WriteU32LE(d)
                     \o WriteU8(h) \o WriteU8(m) \o WriteU8(s)
                     \o (IF us # 0 THEN WriteU32LE(us) ELSE <<>>))
        ELSE Bad

\* <Duration as ToMysqlValue>::to_mysql_bin
duration_to_mysql_bin(self, c) ==
    LET d == self.secs \div (24 * 3600)
        h == (self.secs % (24 * 3600)) \div 3600
        m == (self.secs % 3600) \div 60
        s == self.secs % 60
        us == self.nanos \div 1000
    IN  IF ~(d <= 34) THEN Panic(<<>>)
        ELSE IF c.coltype = "TIME"
        THEN IF self.secs = 0 /\ us = 0
             THEN Ok(WriteU8(0))
             ELSE Ok((IF us # 0 THEN WriteU8(12) ELSE WriteU8(8))
                     \o WriteU8(0)
                     \o WriteU32LE(d)
                     \o WriteU8(h) \o WriteU8(m) \o WriteU8(s)
                     \o (IF us # 0 THEN WriteU32LE(us) ELSE <<>>))
        ELSE Bad

\* chrono: whether NaiveDate::from_ymd(y, mo, d) is a calendar date (it panics
\* otherwise).
ValidYmd(y, mo, d) ==
    LET leap == (y % 4 = 0 /\ y % 100 # 0) \/ y % 400 = 0
        dim == IF mo = 2 THEN (IF leap THEN 29 ELSE 28)
               ELSE IF mo \in {4, 6, 9, 11} THEN 30 ELSE 31
    IN  mo \in 1..12 /\ d \in 1..dim

\* chrono: whether NaiveDate::and_hms_micro(h, mi, s, us) is a time of day (it
\* panics otherwise).
\* The values drawn below keep us under 10^6, where there is no leap second.
ValidHmsMicro(h, mi, s, us) == h < 24 /\ mi < 60 /\ s < 60 /\ us < 1000000

\* NaiveDate::from_ymd(y, mo, d).and_hms_micro(h, mi, s, us)
DateTimeOf(v) ==
    [year |-> v.year, month |-> v.month, day |-> v.day, hour |-> v.hour,
     minute |-> v.minute, second |-> v.second, nano |-> v.micro * 1000]

\* <Value as ToMysqlValue>::to_mysql_bin, Value::Date(y, mo, d, h, mi, s, us)
value_date_to_mysql_bin(v, c) ==
    IF ~ValidYmd(v.year, v.month, v.day) THEN Panic(<<>>)
    ELSE IF ~ValidHmsMicro(v.hour, v.minute, v.second, v.micro) THEN Panic(<<>>)
    ELSE datetime_to_mysql_bin(DateTimeOf(v), c)

\* chrono::Duration::days(d) + hours(h) + minutes(m) + seconds(s)
\* + microseconds(us), then to_std(): the sum is never negative.
DurationOf(t) ==
    [secs |-> t.days * 86400 + t.hour * 3600 + t.minute * 60 + t.second
              + t.micro \div 1000000,
     nanos |-> (t.micro % 1000000) * 1000]

\* <Value as ToMysqlValue>::to_mysql_text, Value::Time(neg, d, h, m, s, us)
value_time_to_mysql_text(t) ==
    IF t.neg THEN NegativeTime
    ELSE duration_to_mysql_text(DurationOf(t))

\* A Value::Time encoder that drops the sign and encodes the magnitude.
value_time_ignores_neg(t, c) == duration_to_mysql_bin(DurationOf(t), c)

\* <Value as ToMysqlValue>::to_mysql_bin, Value::Time(neg, d, h, m, s, us)
value_time_to_mysql_bin(t, c) ==
    IF t.neg THEN NegativeTime
    ELSE duration_to_mysql_bin(DurationOf(t), c)

-----------------------------------------------------------------------------
(* Byte and string encoders.                                               *)

\* <[u8] as ToMysqlValue>::to_mysql_text
bytes_to_mysql_text(self) == Ok(write_lenenc_str(self))

\* A byte encoder whose list of accepted column types lacks JSON.
bytes_bin_without_json(self, c) ==
    IF c.coltype \in {"STRING", "VAR_STRING", "BLOB", "TINY_BLOB", "MEDIUM_BLOB",
                      "LONG_BLOB", "SET", "ENUM", "DECIMAL", "VARCHAR", "BIT",
                      "NEWDECIMAL", "GEOMETRY"}
    THEN Ok(write_lenenc_str(self))
    ELSE Bad

\* <[u8] as ToMysqlValue>::to_mysql_bin
bytes_to_mysql_bin(self, c) ==
    IF c.coltype \in {"STRING", "VAR_STRING", "BLOB", "TINY_BLOB", "MEDIUM_BLOB",
                      "LONG_BLOB", "SET", "ENUM", "DECIMAL", "VARCHAR", "BIT",
                      "NEWDECIMAL", "GEOMETRY", "JSON"}
    THEN Ok(write_lenenc_str(self))
    ELSE Bad

\* str::as_bytes / String::as_bytes: the UTF-8 bytes the string holds.
as_bytes(self) == self

\* <String as ToMysqlValue>
string_to_mysql_text(self) == bytes_to_mysql_text(as_bytes(self))
string_to_mysql_bin(self, c) == bytes_to_mysql_bin(as_bytes(self), c)

\* <str as ToMysqlValue>
str_to_mysql_text(self) == bytes_to_mysql_text(as_bytes(self))
str_to_mysql_bin(self, c) == bytes_to_mysql_bin(as_bytes(self), c)

\* <Vec<u8> as ToMysqlValue>: (self[..]), the whole vector as a slice.
vec_to_mysql_text(self) == bytes_to_mysql_text(SubSeq(self, 1, Len(self)))
vec_to_mysql_bin(self, c) == bytes_to_mysql_bin(SubSeq(self, 1, Len(self)), c)

\* <&T as ToMysqlValue>, T = [u8]
ref_to_mysql_text(self) == bytes_to_mysql_text(self)
ref_to_mysql_bin(self, c) == bytes_to_mysql_bin(self, c)

\* <Value as ToMysqlValue>, Value::Bytes(ref bytes): bytes is a Vec<u8>.
value_bytes_to_mysql_text(b) == vec_to_mysql_text(b)
value_bytes_to_mysql_bin(b, c) == vec_to_mysql_bin(b, c)

-----------------------------------------------------------------------------
(* The inputs the calls are drawn from.                                    *)

\* The largest day count drawn for a duration; 34 is the last one the binary
\* TIME encoder accepts.
MaxDays == 35

\* Integers at and around the limits of every native width.
NumPool ==
    {N(0), N(1), N(-1), N(100), N(127), N(128), N(-128), N(-129), N(200), N(255),
     N(256), N(32767), N(32768), N(-32768), N(-32769), N(65535), N(65536),
     N(2147483647), Pow2(31), Neg(Pow2(31)), Neg([neg |-> FALSE, mag |-> <<1, 0, 0, 128, 0, 0, 0, 0>>]),
     Pow2m1(32), Pow2(32), Pow2(40), Neg(Pow2(40)), Pow2m1(63), Pow2(63),
     Neg(Pow2(63)), Pow2m1(64)}

\* The values of a native integer type among them.
ValuesOf(ty) == {v \in NumPool : LE(MinValue(ty), v) /\ LE(v, MaxValue(ty))}

NaiveDates ==
    {d \in [year : {2020, 2021, 9999}, month : {2, 7, 12}, day : {1, 15, 29}] :
        ValidYmd(d.year, d.month, d.day)}

NaiveDateTimes ==
    {d \in [year : {2021, 9999}, month : {2, 7}, day : {15, 29}, hour : {0, 13, 23},
            minute : {0, 59}, second : {0, 59},
            nano : {0, 999, 1000, 500000000, 999999999}] :
        ValidYmd(d.year, d.month, d.day)}

\* The fields of Value::Date: u16, u8, u8, u8, u8, u8, u32.
DateValues ==
    [year : {2021, 9999, 65535}, month : {0, 7, 13}, day : {0, 15}, hour : {0, 23, 24},
     minute : {0, 59}, second : {0, 59}, micro : {0, 500000}]

Durations ==
    [secs : {0, 1, 59, 60, 3600, 86399, 86400, 34 * 86400 + 86399, MaxDays * 86400},
     nanos : {0, 999, 1000, 500000000, 999999999}]

\* The fields of Value::Time: bool, u32, u8, u8, u8, u32.
TimeValues ==
    [neg : BOOLEAN, days : {0, 1, 34, MaxDays}, hour : {0, 23, 255}, minute : {0, 59},
     second : {0, 59}, micro : {0, 1, 999999, 1000000, 1500000}]

\* The longest byte string drawn with every content.
MaxLen == 2

\* Byte strings of n copies of b.
Fill(n, b) == [i \in 1..n |-> b]

\* Every string over the alphabet up to MaxLen bytes, and strings at and past
\* the length (251) where the length prefix stops being a single byte.
StringsOver(alphabet) ==
    UNION {[1..n -> alphabet] : n \in 0..MaxLen}
        \cup {Fill(250, 65), Fill(251, 65), Fill(300, 65)}

\* [u8] and Vec<u8> values.
ByteStrings == StringsOver({0, 65, 255})

\* str and String values: UTF-8.
Utf8Strings == StringsOver({0, 65, 122})

-----------------------------------------------------------------------------
(* The state: the last call and its outcome.                               *)

VARIABLES
    ptrw,     \* the pointer width of the build target, in bytes
    op,       \* the implementation called
    fmt,      \* "bin" (to_mysql_bin) or "text" (to_mysql_text)
    col,      \* the column of a binary call
    num,      \* the integer argument of a numeric call
    dt,       \* the date or datetime argument
    dur,      \* the duration argument (of a Value::Time call: the one built)
    tm,       \* the fields of a Value::Time argument
    bytes,    \* the byte string or string argument
    result,   \* "Ok", "Err" or "Panic"; "none" before any call
    kind,     \* the io::ErrorKind of an Err
    sink      \* the bytes the call wrote

vars == <<ptrw, op, fmt, col, num, dt, dur, tm, bytes, result, kind, sink>>

NoCol == [coltype |-> "NULL", unsigned |-> FALSE]
NoNum == N(0)
NoDt == [year |-> 0, month |-> 0, day |-> 0, hour |-> 0, minute |-> 0,
         second |-> 0, nano |-> 0]
NoDur == [secs |-> 0, nanos |-> 0]
NoTm == [neg |-> FALSE, days |-> 0, hour |-> 0, minute |-> 0, second |-> 0,
         micro |-> 0]

Init ==
    /\ ptrw \in PointerWidths
    /\ op = "none" /\ fmt = "none" /\ col = NoCol
    /\ num = NoNum /\ dt = NoDt /\ dur = NoDur /\ tm = NoTm /\ bytes = <<>>
    /\ result = "none" /\ kind = "none" /\ sink = <<>>

\* A value and its sink live for one call: a behaviour is one call, made on a
\* fresh sink.
Fresh == result = "none"

\* What one call leaves.
CallWith(o, f, c, n, d, du, t, b, r) ==
    /\ op' = o /\ fmt' = f /\ col' = c
    /\ num' = n /\ dt' = d /\ dur' = du /\ tm' = t /\ bytes' = b
    /\ result' = r.res /\ kind' = r.kind /\ sink' = r.out
    /\ UNCHANGED ptrw

\* A call whose argument is no byte string.
Call(o, f, c, n, d, du, t, r) == CallWith(o, f, c, n, d, du, t, <<>>, r)

\* A call on a byte string or string.
BytesCall(o, f, c, b, r) == CallWith(o, f, c, NoNum, NoDt, NoDur, NoTm, b, r)

NumCall(o, n, c, r) == Call(o, "bin", c, n, NoDt, NoDur, NoTm, r)

U8Bin ==
    /\ Fresh
    /\ \E v \in ValuesOf(U8), c \in Columns :
        NumCall("u8", v, c, u8_to_mysql_bin(v, c))

I8Bin ==
    /\ Fresh
    /\ \E v \in ValuesOf(I8), c \in Columns :
        NumCall("i8", v, c, i8_to_mysql_bin(v, c))

U16Bin ==
    /\ Fresh
    /\ \E v \in ValuesOf(U16), c \in Columns :
        NumCall("u16", v, c, u16_to_mysql_bin(v, c))

I16Bin ==
    /\ Fresh
    /\ \E v \in ValuesOf(I16), c \in Columns :
        NumCall("i16", v, c, i16_to_mysql_bin(v, c))

U32Bin ==
    /\ Fresh
    /\ \E v \in ValuesOf(U32), c \in Columns :
        NumCall("u32", v, c, u32_to_mysql_bin(v, c))

I32Bin ==
    /\ Fresh
    /\ \E v \in ValuesOf(I32), c \in Columns :
        NumCall("i32", v, c, i32_to_mysql_bin(v, c))

U64Bin ==
    /\ Fresh
    /\ \E v \in ValuesOf(U64), c \in Columns :
        NumCall("u64", v, c, u64_to_mysql_bin(v, c))

I64Bin ==
    /\ Fresh
    /\ \E v \in ValuesOf(I64), c \in Columns :
        NumCall("i64", v, c, i64_to_mysql_bin(v, c))

USizeBin ==
    /\ Fresh
    /\ \E v \in ValuesOf(USize(ptrw)), c \in Columns :
           NumCall("usize", v, c, forgiving_numeric(v, USize(ptrw), c))

ISizeBin ==
    /\ Fresh
    /\ \E v \in ValuesOf(ISize(ptrw)), c \in Columns :
           NumCall("isize", v, c, forgiving_numeric(v, ISize(ptrw), c))

ValueIntBin ==
    /\ Fresh
    /\ \E n \in ValuesOf(I64), c \in Columns :
           NumCall("Value::Int", n, c, value_int_to_mysql_bin(n, c))

ValueUIntBin ==
    /\ Fresh
    /\ \E n \in ValuesOf(U64), c \in Columns :
           NumCall("Value::UInt", n, c, value_uint_to_mysql_bin(n, c))

DateBin ==
    /\ Fresh
    /\ \E d \in NaiveDates, c \in Columns :
           Call("NaiveDate", "bin", c, NoNum,
                [year |-> d.year, month |-> d.month, day |-> d.day, hour |-> 0,
                 minute |-> 0, second |-> 0, nano |-> 0],
                NoDur, NoTm, date_to_mysql_bin(d, c))

DateTimeBin ==
    /\ Fresh
    /\ \E d \in NaiveDateTimes, c \in Columns :
           Call("NaiveDateTime", "bin", c, NoNum, d, NoDur, NoTm,
                datetime_to_mysql_bin(d, c))

ValueDateBin ==
    /\ Fresh
    /\ \E v \in DateValues, c \in Columns :
           Call("Value::Date", "bin", c, NoNum, DateTimeOf(v), NoDur, NoTm,
                value_date_to_mysql_bin(v, c))

DurationBin ==
    /\ Fresh
    /\ \E d \in Durations, c \in Columns :
           Call("Duration", "bin", c, NoNum, NoDt, d, NoTm, duration_to_mysql_bin(d, c))

DurationText ==
    /\ Fresh
    /\ \E d \in Durations :
           Call("Duration", "text", NoCol, NoNum, NoDt, d, NoTm, duration_to_mysql_text(d))

ValueTimeBin ==
    /\ Fresh
    /\ \E t \in TimeValues, c \in Columns :
           Call("Value::Time", "bin", c, NoNum, NoDt, DurationOf(t), t,
                value_time_to_mysql_bin(t, c))

ValueTimeText ==
    /\ Fresh
    /\ \E t \in TimeValues :
           Call("Value::Time", "text", NoCol, NoNum, NoDt, DurationOf(t), t,
                value_time_to_mysql_text(t))

BytesBin ==
    /\ Fresh
    /\ \E b \in ByteStrings, c \in Columns :
           BytesCall("[u8]", "bin", c, b, bytes_to_mysql_bin(b, c))

BytesText ==
    /\ Fresh
    /\ \E b \in ByteStrings :
           BytesCall("[u8]", "text", NoCol, b, bytes_to_mysql_text(b))

StringBin ==
    /\ Fresh
    /\ \E b \in Utf8Strings, c \in Columns :
           BytesCall("String", "bin", c, b, string_to_mysql_bin(b, c))

StringText ==
    /\ Fresh
    /\ \E b \in Utf8Strings :
           BytesCall("String", "text", NoCol, b, string_to_mysql_text(b))

StrBin ==
    /\ Fresh
    /\ \E b \in Utf8Strings, c \in Columns :
           BytesCall("str", "bin", c, b, str_to_mysql_bin(b, c))

StrText ==
    /\ Fresh
    /\ \E b \in Utf8Strings :
           BytesCall("str", "text", NoCol, b, str_to_mysql_text(b))

VecBin ==
    /\ Fresh
    /\ \E b \in ByteStrings, c \in Columns :
           BytesCall("Vec<u8>", "bin", c, b, vec_to_mysql_bin(b, c))

VecText ==
    /\ Fresh
    /\ \E b \in ByteStrings :
           BytesCall("Vec<u8>", "text", NoCol, b, vec_to_mysql_text(b))

RefBin ==
    /\ Fresh
    /\ \E b \in ByteStrings, c \in Columns :
           BytesCall("&[u8]", "bin", c, b, ref_to_mysql_bin(b, c))

RefText ==
    /\ Fresh
    /\ \E b \in ByteStrings :
           BytesCall("&[u8]", "text", NoCol, b, ref_to_mysql_text(b))

ValueBytesBin ==
    /\ Fresh
    /\ \E b \in ByteStrings, c \in Columns :
           BytesCall("Value::Bytes", "bin", c, b, value_bytes_to_mysql_bin(b, c))

ValueBytesText ==
    /\ Fresh
    /\ \E b \in ByteStrings :
           BytesCall("Value::Bytes", "text", NoCol, b, value_bytes_to_mysql_text(b))

Next ==
    \/ U8Bin \/ I8Bin \/ U16Bin \/ I16Bin \/ U32Bin \/ I32Bin \/ U64Bin \/ I64Bin
    \/ USizeBin \/ ISizeBin
    \/ ValueIntBin \/ ValueUIntBin
    \/ DateBin \/ DateTimeBin \/ ValueDateBin
    \/ DurationBin \/ DurationText
    \/ ValueTimeBin \/ ValueTimeText
    \/ BytesBin \/ BytesText \/ StringBin \/ StringText \/ StrBin \/ StrText
    \/ VecBin \/ VecText \/ RefBin \/ RefText \/ ValueBytesBin \/ ValueBytesText

Spec == Init /\ [][Next]_vars

-----------------------------------------------------------------------------
(* Properties of the numeric encoders.                                     *)

\* sizeof(T) of an integer column type T.
Width(ct) ==
    CASE ct = "TINY" -> 1
      [] ct \in {"SHORT", "YEAR"} -> 2
      [] ct \in {"LONG", "INT24"} -> 4
      [] ct = "LONGLONG" -> 8

IsIntCol(c) == c.coltype \in IntColTypes

\* The integer type an integer column declares.
WireTy(c) == IntTy(Width(c.coltype), ~c.unsigned)

\* n lies within the range of the column's type under its signedness.
Fits(n, c) == LE(MinValue(WireTy(c)), n) /\ LE(n, MaxValue(WireTy(c)))

\* The sink holds exactly the column's width, and reads back as n.
EncodesExactly(n, c) ==
    /\ Len(sink) = Width(c.coltype)
    /\ Interp(sink, ~c.unsigned) = n

NativeOps == {"u8", "i8", "u16", "i16", "u32", "i32", "u64", "i64", "usize", "isize"}

NumericOps == NativeOps \cup {"Value::Int", "Value::UInt"}

\* The native type of a native call.
NativeTy(o) ==
    CASE o = "u8" -> U8 [] o = "i8" -> I8 [] o = "u16" -> U16 [] o = "i16" -> I16
      [] o = "u32" -> U32 [] o = "i32" -> I32 [] o = "u64" -> U64 [] o = "i64" -> I64
      [] o = "usize" -> USize(ptrw) [] o = "isize" -> ISize(ptrw)

\* C1: a Value::Int(n) encoded against an integer column whose range (under
\* its declared signedness) holds n returns Ok and writes exactly sizeof(T)
\* bytes, the little-endian two's-complement encoding of n.
C1_IntInRangeEncodes ==
    (op = "Value::Int" /\ IsIntCol(col) /\ Fits(num, col))
        => (result = "Ok" /\ EncodesExactly(num, col))

\* Int(200) against an unsigned TINY column wrote the single byte 0xC8.
C1_Witness ==
    /\ op = "Value::Int" /\ num = N(200)
    /\ col = [coltype |-> "TINY", unsigned |-> TRUE]
    /\ result = "Ok" /\ sink = <<200>>

\* C2: a Value::Int(n) encoded against a column that is no integer column, or
\* whose range does not hold n, returns the InvalidData error and writes
\* nothing.
C2_IntOutOfRangeFails ==
    (op = "Value::Int" /\ (~IsIntCol(col) \/ ~Fits(num, col)))
        => (result = "Err" /\ kind = "InvalidData" /\ sink = <<>>)

\* Int(-1) against an unsigned LONGLONG column was refused.
C2_Witness ==
    /\ op = "Value::Int" /\ num = N(-1)
    /\ col = [coltype |-> "LONGLONG", unsigned |-> TRUE]
    /\ result = "Err" /\ kind = "InvalidData" /\ sink = <<>>

\* C3: a native integer encoded against an integer column never wraps: when
\* the call returns Ok the bytes written read back, at the column's width and
\* signedness, as the value; and a negative value against an UNSIGNED column
\* does not succeed and writes nothing.
C3_NativeNeverWraps ==
    (op \in NativeOps /\ IsIntCol(col))
        => /\ result = "Ok" => EncodesExactly(num, col)
           /\ (num.neg /\ col.unsigned) => (result # "Ok" /\ sink = <<>>)

\* C4: a native integer within the range of the integer column's type is
\* encoded: the call returns Ok and writes sizeof(T) bytes.
C4_NativeInRangeEncodes ==
    (op \in NativeOps /\ IsIntCol(col) /\ Fits(num, col))
        => (result = "Ok" /\ Len(sink) = Width(col.coltype))

\* A signedness mismatch at equal width: an unsigned native value against a
\* signed column as wide, a signed one against an UNSIGNED column as wide, or
\* Value::UInt against a signed LONGLONG column.
SignednessMismatch ==
    \/ /\ op \in NativeOps /\ IsIntCol(col)
       /\ NativeTy(op).bytes = Width(col.coltype)
       /\ NativeTy(op).signed = col.unsigned
    \/ op = "Value::UInt" /\ col.coltype = "LONGLONG" /\ ~col.unsigned

\* C5: a numeric call always returns, Ok or Err, and never panics; a
\* signedness mismatch at equal width returns the InvalidData error.
C5_NumericNeverPanics ==
    (op \in NumericOps)
        => /\ result \in {"Ok", "Err"}
           /\ SignednessMismatch => (result = "Err" /\ kind = "InvalidData")

-----------------------------------------------------------------------------
(* Properties of the temporal encoders.                                    *)

\* The call's date argument is a calendar date at midnight.
DateOnly ==
    /\ ValidYmd(dt.year, dt.month, dt.day)
    /\ dt.hour = 0 /\ dt.minute = 0 /\ dt.second = 0 /\ dt.nano = 0

\* C6: Value::Date(y, mo, d, 0, 0, 0, 0), a calendar date, encoded against a
\* DATE column returns Ok and writes the 5 bytes 0x04, year (2 bytes,
\* little-endian), month, day.
C6_ValueDateAgainstDate ==
    (op = "Value::Date" /\ col.coltype = "DATE" /\ DateOnly)
        => /\ result = "Ok"
           /\ sink = <<4, dt.year % 256, dt.year \div 256, dt.month, dt.day>>

\* The microsecond part of a time of day or of a duration held in nanoseconds.
Micro(nanos) == nanos \div 1000

\* The unsigned 32-bit little-endian integer at sink[i..i+3] (below 2^31).
U32At(i) == sink[i] + 256 * sink[i + 1] + 65536 * sink[i + 2] + 16777216 * sink[i + 3]

DateFamilyOps == {"NaiveDate", "NaiveDateTime", "Value::Date"}

TimeOps == {"Duration", "Value::Time"}

\* The length byte of a binary time value: 0 for a zero duration, 8 when only
\* the microseconds are zero, 12 when they are not.
TimeLengthShortest ==
    (op \in TimeOps /\ fmt = "bin" /\ result = "Ok")
        => sink[1] = (IF dur.secs = 0 /\ Micro(dur.nanos) = 0 THEN 0
                      ELSE IF Micro(dur.nanos) = 0 THEN 8 ELSE 12)

\* C7 as claimed: the length byte of a date or datetime value is 4 when the
\* time of day and the microseconds are zero, 7 when only the microseconds
\* are zero, 11 when they are not; that of a time value is 0, 8 or 12.
C7_ShortestLength ==
    /\ (op \in DateFamilyOps /\ result = "Ok")
        => sink[1] = (IF dt.hour = 0 /\ dt.minute = 0 /\ dt.second = 0
                         /\ Micro(dt.nano) = 0 THEN 4
                      ELSE IF Micro(dt.nano) = 0 THEN 7 ELSE 11)
    /\ TimeLengthShortest

\* C7 as amended: a date value (NaiveDate) always has length byte 4; a
\* datetime value (NaiveDateTime, Value::Date) has length byte 7 whenever its
\* microseconds are zero, midnight included, and 11 when they are not; a time
\* value has 0, 8 or 12.
C7_LengthByMicros ==
    /\ (op = "NaiveDate" /\ result = "Ok") => sink[1] = 4
    /\ (op \in {"NaiveDateTime", "Value::Date"} /\ result = "Ok")
        => sink[1] = (IF Micro(dt.nano) = 0 THEN 7 ELSE 11)
    /\ TimeLengthShortest

\* A datetime at midnight was encoded with length byte 7.
C7_Witness ==
    /\ op = "NaiveDateTime" /\ col.coltype = "DATETIME" /\ result = "Ok"
    /\ dt.hour = 0 /\ dt.minute = 0 /\ dt.second = 0 /\ dt.nano = 0
    /\ sink[1] = 7 /\ Len(sink) = 8

\* The call's argument is a datetime value: one chrono constructs.
IsDateTime ==
    /\ ValidYmd(dt.year, dt.month, dt.day)
    /\ ValidHmsMicro(dt.hour, dt.minute, dt.second, Micro(dt.nano))

\* C8: a datetime value encoded against a DATETIME or TIMESTAMP column returns
\* Ok; the first byte counts the bytes after it; they are 0x07, year (2 bytes
\* little-endian), month, day, hour, minute, second when the microseconds are
\* zero, and 0x0B, the same, and the microseconds (4 bytes little-endian) when
\* they are not.  Against any other column the call returns the InvalidData
\* error and writes nothing.
C8_DateTimeLayout ==
    (op \in {"NaiveDateTime", "Value::Date"} /\ IsDateTime)
        => IF col.coltype \in {"DATETIME", "TIMESTAMP"}
           THEN /\ result = "Ok"
                /\ sink[1] = Len(sink) - 1
                /\ SubSeq(sink, 2, 8) = <<dt.year % 256, dt.year \div 256, dt.month,
                                          dt.day, dt.hour, dt.minute, dt.second>>
                /\ IF Micro(dt.nano) = 0
                   THEN sink[1] = 7
                   ELSE sink[1] = 11 /\ U32At(9) = Micro(dt.nano)
           ELSE result = "Err" /\ kind = "InvalidData" /\ sink = <<>>

\* A datetime with 500000 microseconds was encoded against a TIMESTAMP column
\* in 12 bytes.
C8_Witness ==
    /\ op = "NaiveDateTime" /\ col.coltype = "TIMESTAMP" /\ result = "Ok"
    /\ dt.nano = 500000000
    /\ sink[1] = 11 /\ Len(sink) = 12 /\ SubSeq(sink, 9, 12) = <<32, 161, 7, 0>>

\* C9: a non-negative duration of at most 34 whole days encoded against a TIME
\* column returns Ok.  A zero duration writes the one byte 0x00.  Otherwise
\* the first byte is 8 (microseconds zero) or 12 and counts the bytes after
\* it: the sign byte 0, the days (4 bytes little-endian), hour < 24, minute <
\* 60, second < 60, which add up to the duration's whole seconds, and the
\* microseconds (4 bytes little-endian) only when the length is 12.
C9_TimeLayout ==
    (op \in TimeOps /\ fmt = "bin" /\ ~tm.neg /\ col.coltype = "TIME"
        /\ dur.secs \div 86400 <= 34)
        => /\ result = "Ok"
           /\ IF dur.secs = 0 /\ Micro(dur.nanos) = 0
              THEN sink = <<0>>
              ELSE /\ sink[1] = (IF Micro(dur.nanos) = 0 THEN 8 ELSE 12)
                   /\ sink[1] = Len(sink) - 1
                   /\ sink[2] = 0
                   /\ sink[7] < 24 /\ sink[8] < 60 /\ sink[9] < 60
                   /\ U32At(3) * 86400 + sink[7] * 3600 + sink[8] * 60 + sink[9]
                        = dur.secs
                   /\ sink[1] = 12 => U32At(10) = Micro(dur.nanos)

\* A duration of 34 days 23:59:59.5 was encoded in 13 bytes.
C9_Witness ==
    /\ op = "Duration" /\ fmt = "bin" /\ col.coltype = "TIME" /\ result = "Ok"
    /\ dur = [secs |-> 34 * 86400 + 86399, nanos |-> 500000000]
    /\ sink = <<12, 0, 34, 0, 0, 0, 23, 59, 59, 32, 161, 7, 0>>

\* C10: a Value::Time whose negative flag is set is refused in both formats,
\* whatever its fields and the column: the call returns an error and writes
\* nothing.
C10_NegativeTimeFails ==
    (op = "Value::Time" /\ tm.neg) => (result = "Err" /\ sink = <<>>)

\* A negative time of one day was refused by the binary encoder against a TIME
\* column.
C10_Witness ==
    /\ op = "Value::Time" /\ fmt = "bin" /\ col.coltype = "TIME"
    /\ tm.neg /\ tm.days = 1 /\ dur.secs = 86400
    /\ result = "Err" /\ sink = <<>>

-----------------------------------------------------------------------------
(* Properties of the byte encoders and of the duration encoders' limits.   *)

BytesOps == {"[u8]", "String", "str", "Vec<u8>", "&[u8]", "Value::Bytes"}

\* The column types that carry a byte payload.
PayloadColTypes ==
    {"STRING", "VAR_STRING", "VARCHAR", "BLOB", "TINY_BLOB", "MEDIUM_BLOB",
     "LONG_BLOB", "SET", "ENUM", "DECIMAL", "NEWDECIMAL", "BIT", "GEOMETRY", "JSON"}

\* The sink holds b as a length-encoded string: the length as one byte below
\* 251, as 0xFC and two little-endian bytes from there to 65535, then b.
IsLenencStr(b) ==
    LET p == Len(sink) - Len(b)
    IN  /\ IF Len(b) < 251
           THEN p = 1 /\ sink[1] = Len(b)
           ELSE p = 3 /\ sink[1] = 252 /\ sink[2] + 256 * sink[3] = Len(b)
        /\ SubSeq(sink, p + 1, Len(sink)) = b

\* C11: a byte string (as [u8], Vec<u8>, str, String, a reference, or
\* Value::Bytes) is encoded in binary exactly when the column type carries a
\* byte payload; the bytes written are then those the text encoding writes, the
\* length prefix and the raw bytes; otherwise the call returns an error and
\* writes nothing.
C11_BytesBinIffPayloadColumn ==
    /\ (op \in BytesOps /\ fmt = "bin")
        => /\ result = "Ok" <=> col.coltype \in PayloadColTypes
           /\ result = "Ok"
                => (sink = bytes_to_mysql_text(bytes).out /\ IsLenencStr(bytes))
           /\ result # "Ok" => (result = "Err" /\ sink = <<>>)
    /\ (op \in BytesOps /\ fmt = "text")
        => (result = "Ok" /\ IsLenencStr(bytes))

\* A Value::Bytes of 251 bytes was encoded against a JSON column with a
\* three-byte length prefix.
C11_Witness ==
    /\ op = "Value::Bytes" /\ fmt = "bin" /\ col.coltype = "JSON"
    /\ Len(bytes) = 251 /\ result = "Ok"
    /\ Len(sink) = 254 /\ SubSeq(sink, 1, 3) = <<252, 251, 0>>

\* C12: a non-negative duration of more than 34 whole days (a Value::Time
\* whose hours, minutes and seconds carry it past 34 days included) encoded in
\* binary against any column returns an error, without aborting and without
\* writing a byte.
C12_LongDurationIsAnError ==
    (op \in TimeOps /\ fmt = "bin" /\ ~tm.neg /\ dur.secs \div 86400 > 34)
        => (result = "Err" /\ sink = <<>>)

\* The number a string of ASCII digits reads as.
RECURSIVE DecVal(_)
DecVal(ds) ==
    IF ds = <<>> THEN 0
    ELSE 10 * DecVal(SubSeq(ds, 1, Len(ds) - 1)) + (ds[Len(ds)] - 48)

AllDigits(ds) == \A i \in 1..Len(ds) : ds[i] \in 48..57

\* txt is HH:MM:SS[.UUUUUU] for s whole seconds and u microseconds: the hours
\* hold everything above the minutes, in at least two digits and with no
\* zero before them beyond that; the fraction is there exactly when u # 0.
IsDurationText(txt, s, u) ==
    LET frac == IF u # 0 THEN 7 ELSE 0
        hl == Len(txt) - 6 - frac
        hh == SubSeq(txt, 1, hl)
        mm == SubSeq(txt, hl + 2, hl + 3)
        ss == SubSeq(txt, hl + 5, hl + 6)
        uu == SubSeq(txt, hl + 8, hl + 13)
    IN  /\ hl >= 2
        /\ hl > 2 => hh[1] # 48
        /\ AllDigits(hh) /\ DecVal(hh) = s \div 3600
        /\ txt[hl + 1] = 58
        /\ AllDigits(mm) /\ DecVal(mm) = (s % 3600) \div 60
        /\ txt[hl + 4] = 58
        /\ AllDigits(ss) /\ DecVal(ss) = s % 60
        /\ u # 0 => (txt[hl + 7] = 46 /\ AllDigits(uu) /\ DecVal(uu) = u)

\* C13: the text encoding of a non-negative duration of any number of days
\* returns Ok and writes the length-encoded string HH:MM:SS, HH the whole
\* hours (days folded in, two digits at least), then '.' and the microseconds
\* as six digits exactly when they are not zero.
C13_DurationText ==
    (op \in TimeOps /\ fmt = "text" /\ ~tm.neg)
        => /\ result = "Ok"
           /\ Len(sink) >= 9
           /\ sink[1] = Len(sink) - 1
           /\ IsDurationText(Tail(sink), dur.secs, Micro(dur.nanos))

\* A duration of 35 days and half a second was written as "840:00:00.500000".
C13_Witness ==
    /\ op = "Duration" /\ fmt = "text" /\ result = "Ok"
    /\ dur = [secs |-> MaxDays * 86400, nanos |-> 500000000]
    /\ dur.secs \div 86400 > 34
    /\ Len(sink) = 17 /\ sink[1] = 16 /\ sink[5] = 58 /\ sink[11] = 46

=============================================================================
